---- MODULE Spec2Model ----
(***************************************************************************)
(* Model of src/test_claude.py: a top-to-bottom script that reads two      *)
(* environment values, constructs an anthropic.Client, issues one          *)
(* client.messages.create call and prints the text of content block 0.     *)
(* The interpreter's handling of an uncaught exception (traceback on       *)
(* stderr, exit status 1) is part of the run.                              *)
(***************************************************************************)
EXTENDS Naturals, Sequences, FiniteSets

\* ---------------------------------------------------------------- bounds
MaxBlocks == 2

\* ------------------------------------------------------------- constants
Missing == "<missing>"
None == "<None>"
Model == "claude-3-opus-20240229"
MaxTokens == 1000
Prompt == "Hello! Can you confirm that you're working?"
Label == "Claude's response:"
Sep == " "

\* --------------------------------------------------------- input domains
TokenValues == {Missing, "", "tok_abc"}
BaseUrlValues == {Missing, "", "https://api.example.test"}
Texts == {"Yes, I'm working.", "second block", ""}
ServiceFailures == {"unreachable", "timeout", "rejected"}

Block(t) == [text |-> t]
Blocks == {Block(t) : t \in Texts}
ContentsOfLen(n) == [1..n -> Blocks]
Contents == UNION {ContentsOfLen(n) : n \in 0..MaxBlocks}

\* client, request, message and exit_code are <<>> until they are set and a
\* one-element sequence afterwards
VARIABLES env_token, env_base_url, pc, api_key, base_url, client, calls,
          request, service, message, exception, stdout, stderr, exit_code,
          trace

vars == <<env_token, env_base_url, pc, api_key, base_url, client, calls,
          request, service, message, exception, stdout, stderr, exit_code,
          trace>>

env == <<env_token, env_base_url>>

\* ----------------------------------------------------------- pure parts
BuildRequestWithSystem ==
  [model |-> Model, max_tokens |-> MaxTokens,
   messages |-> <<[role |-> "system", content |-> "You are a test."],
                  [role |-> "user", content |-> Prompt]>>]

\* messages.create(model=..., max_tokens=..., messages=[{...}])
BuildRequest ==
  [model |-> Model, max_tokens |-> MaxTokens,
   messages |-> <<[role |-> "user", content |-> Prompt]>>]

\* the exception class the client library raises for a failed call
SdkException(f) ==
  CASE f = "unreachable" -> "APIConnectionError"
    [] f = "timeout" -> "APITimeoutError"
    [] f = "rejected" -> "AuthenticationError"

\* print(a, b): the arguments joined by one space
PrintLine(a, b) == a \o Sep \o b

\* the line an uncaught exception leaves on stderr
Traceback(e) == "Traceback (most recent call last): " \o e

Init ==
  /\ env_token \in TokenValues
  /\ env_base_url \in BaseUrlValues
  /\ pc = "read_token"
  /\ api_key = None
  /\ base_url = None
  /\ client = <<>>
  /\ calls = 0
  /\ request = <<>>
  /\ service = "idle"
  /\ message = <<>>
  /\ exception = None
  /\ stdout = <<>>
  /\ stderr = <<>>
  /\ exit_code = <<>>
  /\ trace = <<>>

\* ----------------------------------------------------------------- steps
\* os.environ["ANTHROPIC_AUTH_TOKEN"], key present
ReadToken ==
  /\ pc = "read_token"
  /\ env_token # Missing
  /\ api_key' = env_token
  /\ pc' = "read_base_url"
  /\ trace' = Append(trace, "read_token")
  /\ UNCHANGED <<env, base_url, client, calls, request, service, message,
                 exception, stdout, stderr, exit_code>>

ReadTokenMissingDefaulted ==
  /\ pc = "read_token"
  /\ env_token = Missing
  /\ api_key' = None
  /\ pc' = "read_base_url"
  /\ trace' = Append(trace, "read_token")
  /\ UNCHANGED <<env, base_url, client, calls, request, service, message,
                 exception, stdout, stderr, exit_code>>

\* os.environ["ANTHROPIC_AUTH_TOKEN"], key absent: KeyError
ReadTokenMissing ==
  /\ pc = "read_token"
  /\ env_token = Missing
  /\ exception' = "KeyError"
  /\ pc' = "raised"
  /\ trace' = Append(trace, "read_token")
  /\ UNCHANGED <<env, api_key, base_url, client, calls, request, service,
                 message, stdout, stderr, exit_code>>

\* os.environ["ANTHROPIC_BASE_URL"], key present
ReadBaseUrl ==
  /\ pc = "read_base_url"
  /\ env_base_url # Missing
  /\ base_url' = env_base_url
  /\ pc' = "construct"
  /\ trace' = Append(trace, "read_base_url")
  /\ UNCHANGED <<env, api_key, client, calls, request, service, message,
                 exception, stdout, stderr, exit_code>>

ReadBaseUrlMissingDefaulted ==
  /\ pc = "read_base_url"
  /\ env_base_url = Missing
  /\ base_url' = None
  /\ pc' = "construct"
  /\ trace' = Append(trace, "read_base_url")
  /\ UNCHANGED <<env, api_key, client, calls, request, service, message,
                 exception, stdout, stderr, exit_code>>

\* os.environ["ANTHROPIC_BASE_URL"], key absent: KeyError
ReadBaseUrlMissing ==
  /\ pc = "read_base_url"
  /\ env_base_url = Missing
  /\ exception' = "KeyError"
  /\ pc' = "raised"
  /\ trace' = Append(trace, "read_base_url")
  /\ UNCHANGED <<env, api_key, base_url, client, calls, request, service,
                 message, stdout, stderr, exit_code>>

\* client = anthropic.Client(api_key=..., base_url=...)
ConstructClient ==
  /\ pc = "construct"
  /\ client' = <<[api_key |-> api_key, base_url |-> base_url]>>
  /\ pc' = "create"
  /\ trace' = Append(trace, "construct")
  /\ UNCHANGED <<env, api_key, base_url, calls, request, service, message,
                 exception, stdout, stderr, exit_code>>

\* message = client.messages.create(...), the call returns a message
CreateReturns ==
  /\ pc = "create"
  /\ calls' = calls + 1
  /\ request' = <<BuildRequest>>
  /\ service' = "reply"
  /\ \E c \in Contents : message' = <<[content |-> c]>>
  /\ pc' = "print"
  /\ trace' = Append(trace, "create")
  /\ UNCHANGED <<env, api_key, base_url, client, exception, stdout, stderr,
                 exit_code>>

CreateRaisesRetried ==
  /\ pc = "create"
  /\ calls' = calls + 1
  /\ request' = <<BuildRequest>>
  /\ \E f \in ServiceFailures : service' = f
  /\ pc' = "create"
  /\ trace' = Append(trace, "create")
  /\ UNCHANGED <<env, api_key, base_url, client, message, exception, stdout,
                 stderr, exit_code>>

CreateRaisesWrapped ==
  /\ pc = "create"
  /\ calls' = calls + 1
  /\ request' = <<BuildRequest>>
  /\ \E f \in ServiceFailures : service' = f
  /\ exception' = "Exception"
  /\ pc' = "raised"
  /\ trace' = Append(trace, "create")
  /\ UNCHANGED <<env, api_key, base_url, client, message, stdout, stderr,
                 exit_code>>

\* message = client.messages.create(...), the call raises; nothing in the
\* script catches it
CreateRaises ==
  /\ pc = "create"
  /\ calls' = calls + 1
  /\ request' = <<BuildRequest>>
  /\ \E f \in ServiceFailures :
       /\ service' = f
       /\ exception' = SdkException(f)
  /\ pc' = "raised"
  /\ trace' = Append(trace, "create")
  /\ UNCHANGED <<env, api_key, base_url, client, message, stdout, stderr,
                 exit_code>>

PrintResponseLastBlock ==
  /\ pc = "print"
  /\ Len(message[1].content) > 0
  /\ stdout' = Append(stdout,
                 PrintLine(Label, message[1].content[Len(message[1].content)].text))
  /\ pc' = "finished"
  /\ trace' = Append(trace, "print")
  /\ UNCHANGED <<env, api_key, base_url, client, calls, request, service,
                 message, exception, stderr, exit_code>>

\* print("Claude's response:", message[1].content[0].text), block 0 exists
PrintResponse ==
  /\ pc = "print"
  /\ Len(message[1].content) > 0
  /\ stdout' = Append(stdout, PrintLine(Label, message[1].content[1].text))
  /\ pc' = "finished"
  /\ trace' = Append(trace, "print")
  /\ UNCHANGED <<env, api_key, base_url, client, calls, request, service,
                 message, exception, stderr, exit_code>>

PrintEmptyLabelOnly ==
  /\ pc = "print"
  /\ Len(message[1].content) = 0
  /\ stdout' = Append(stdout, PrintLine(Label, ""))
  /\ pc' = "finished"
  /\ trace' = Append(trace, "print")
  /\ UNCHANGED <<env, api_key, base_url, client, calls, request, service,
                 message, exception, stderr, exit_code>>

\* message[1].content[0] on an empty list: IndexError, before print is called
PrintEmpty ==
  /\ pc = "print"
  /\ Len(message[1].content) = 0
  /\ exception' = "IndexError"
  /\ pc' = "raised"
  /\ trace' = Append(trace, "print")
  /\ UNCHANGED <<env, api_key, base_url, client, calls, request, service,
                 message, stdout, stderr, exit_code>>

\* end of the script reached: exit status 0
ExitNormal ==
  /\ pc = "finished"
  /\ exit_code' = <<0>>
  /\ pc' = "exited"
  /\ trace' = Append(trace, "exit")
  /\ UNCHANGED <<env, api_key, base_url, client, calls, request, service,
                 message, exception, stdout, stderr>>

ExitUncaughtStatusZero ==
  /\ pc = "raised"
  /\ stderr' = Append(stderr, Traceback(exception))
  /\ exit_code' = <<0>>
  /\ pc' = "exited"
  /\ trace' = Append(trace, "exit")
  /\ UNCHANGED <<env, api_key, base_url, client, calls, request, service,
                 message, exception, stdout>>

ExitUncaughtSilent ==
  /\ pc = "raised"
  /\ exit_code' = <<1>>
  /\ pc' = "exited"
  /\ trace' = Append(trace, "exit")
  /\ UNCHANGED <<env, api_key, base_url, client, calls, request, service,
                 message, exception, stdout, stderr>>

\* an exception reached the top level: traceback on stderr, exit status 1
ExitUncaught ==
  /\ pc = "raised"
  /\ stderr' = Append(stderr, Traceback(exception))
  /\ exit_code' = <<1>>
  /\ pc' = "exited"
  /\ trace' = Append(trace, "exit")
  /\ UNCHANGED <<env, api_key, base_url, client, calls, request, service,
                 message, exception, stdout>>

Next ==
  \/ ReadToken
  \/ ReadTokenMissing
  \/ ReadBaseUrl
  \/ ReadBaseUrlMissing
  \/ ConstructClient
  \/ CreateReturns
  \/ CreateRaises
  \/ PrintResponse
  \/ PrintEmpty
  \/ ExitNormal
  \/ ExitUncaught

Spec == Init /\ [][Next]_vars

\* the script is sequential and the one blocking call completes or times out
FairSpec == Spec /\ WF_vars(Next)

TypeOK ==
  /\ env_token \in TokenValues
  /\ env_base_url \in BaseUrlValues
  /\ pc \in {"read_token", "read_base_url", "construct", "create", "print",
             "finished", "raised", "exited"}
  /\ calls \in Nat
  /\ service \in {"idle", "reply"} \cup ServiceFailures
  /\ exit_code \in {<<>>, <<0>>, <<1>>}
  /\ Len(client) <= 1 /\ Len(request) <= 1 /\ Len(message) <= 1
\* ------------------------------------------------------------ properties
Content == message[1].content
Failed == pc \in {"raised", "exited"} /\ exception # None
Before(a, b) ==
  \A i, j \in 1..Len(trace) : (trace[i] = a /\ trace[j] = b) => i < j

C2_FirstBlockText ==
  (pc \in {"finished", "exited"} /\ exception = None) =>
    /\ Len(Content) >= 1
    /\ stdout = <<PrintLine(Label, Content[1].text)>>
    /\ \A i \in 2..Len(Content) :
         Content[i].text # Content[1].text =>
           stdout[1] # PrintLine(Label, Content[i].text)

C2_Witness ==
  /\ pc = "exited" /\ exit_code = <<0>>
  /\ Len(message) = 1 /\ Len(Content) = 2
  /\ Content[1].text = "Yes, I'm working."
  /\ Content[2].text = "second block"
  /\ stdout = <<"Claude's response: Yes, I'm working.">>

C4_ExitCode ==
  /\ (pc = "exited") <=> (exit_code # <<>>)
  /\ pc = "exited" =>
       /\ (exit_code = <<0>>) <=>
            (exception = None /\ service = "reply" /\ Len(stdout) = 1)
       /\ exception # None => exit_code[1] # 0

C4_Witness ==
  /\ pc = "exited" /\ service = "timeout"
  /\ exception = "APITimeoutError" /\ exit_code = <<1>>

\* C5: at most one outbound call is issued in a run; after a transport
\* failure, a timeout or a rejection the request is never sent again.
C5_AtMostOneCall ==
  /\ calls <= 1
  /\ service \in ServiceFailures => (calls = 1 /\ pc \in {"raised", "exited"})
  /\ Len(SelectSeq(trace, LAMBDA st : st = "create")) = calls

C5_Witness ==
  service = "timeout" /\ pc = "exited" /\ calls = 1

C7_StepOrder ==
  /\ Before("read_token", "construct")
  /\ Before("read_base_url", "construct")
  /\ Before("construct", "create")
  /\ Before("create", "print")
  /\ client # <<>> =>
       (client[1].api_key = env_token /\ client[1].base_url = env_base_url)
  /\ calls > 0 => client # <<>>
  /\ stdout # <<>> => (message # <<>> /\ service = "reply")
  /\ env_base_url = Missing => (calls = 0 /\ client = <<>> /\ stdout = <<>>)

C7_Witness ==
  /\ env_token = "tok_abc" /\ env_base_url = Missing
  /\ pc = "exited" /\ exception = "KeyError"
  /\ trace = <<"read_token", "read_base_url", "exit">>

\* C8: every failure leaves an error description on the process output
\* before the process exits, and a success leaves exactly one line, the
\* label followed by the reply text.
C8_Reported ==
  pc = "exited" =>
    IF exception # None
      THEN /\ stderr = <<Traceback(exception)>>
           /\ stdout = <<>>
      ELSE /\ stdout = <<PrintLine(Label, Content[1].text)>>
           /\ stderr = <<>>

C8_Witness ==
  /\ pc = "exited" /\ exception = "APIConnectionError"
  /\ stderr = <<"Traceback (most recent call last): APIConnectionError">>

\* C9: the request always carries the same model identifier and the same
\* positive max_tokens, and exactly one message, of role user, whose content
\* is the prompt; no system or assistant message is included.
C9_RequestShape ==
  /\ (calls > 0) <=> (request # <<>>)
  /\ request # <<>> =>
       /\ request[1].model = "claude-3-opus-20240229"
       /\ request[1].max_tokens = 1000
       /\ request[1].max_tokens > 0
       /\ Len(request[1].messages) = 1
       /\ request[1].messages[1].role = "user"
       /\ request[1].messages[1].content = Prompt
       /\ \A i \in 1..Len(request[1].messages) :
            request[1].messages[i].role \notin {"system", "assistant"}

C9_Witness ==
  calls = 1 /\ request # <<>> /\ service = "rejected"

\* C10: every run reaches its exit, and the reply line is written only in
\* runs where a response with at least one content block was received.
C10_Terminates ==
  /\ <>(pc = "exited")
  /\ [](stdout # <<>> => (Len(message) = 1 /\ Len(Content) >= 1))

C10_Witness ==
  /\ pc = "exited" /\ Len(message) = 1 /\ Len(Content) = 0
  /\ stdout = <<>>
====
